---- MODULE Spec2Model ----
(***************************************************************************)
(* Model of the image intake and preview controller of src/src/App.tsx:    *)
(* the four React state cells of App, the object URLs it creates, the      *)
(* removeBackground calls in flight, and one action per event handler or   *)
(* promise continuation.  A handler runs to completion (or to its await)   *)
(* before the next event is delivered, and the state updates of one        *)
(* handler are rendered together, so each action is one handler run.       *)
(***************************************************************************)
EXTENDS Integers, Sequences, FiniteSets, TLC

VARIABLES
    dragActive,      \* useState(false), line 12
    processing,      \* useState(false), line 13
    processedImage,  \* useState<ProcessedImage | null>(null), line 14: <<>> or <<r>>
    error,           \* useState<string | null>(null), line 15
    pending,         \* removeBackground promises not yet settled (line 57)
    liveUrls,        \* object URLs created by URL.createObjectURL and not revoked
    urlCount,        \* number of object URLs created so far (names the next one)
    calls,           \* number of removeBackground invocations made so far
    handed,          \* number of handleFile invocations made so far
    file,            \* argument of the latest handleFile invocation: <<>> or <<f>>
    prevImage,       \* the ProcessedImage most recently discarded: <<>> or <<r>>
    event,           \* the handler or continuation that ran last
    dispatched,      \* the latest removeBackground invocation: <<>> or <<p>>
    dropped,         \* e.dataTransfer.files of the drop handled by the latest step, else <<>>
    logged,          \* the value passed to console.error most recently (line 66)
    saved            \* the link clicked by the latest download: <<>> or <<l>>

vars == <<dragActive, processing, processedImage, error, pending, liveUrls,
          urlCount, calls, handed, file, prevImage, event, dispatched,
          dropped, logged, saved>>

----------------------------------------------------------------------------
(* Bounds and inputs *)

MaxUploads == 3

MaxNameLen == 4

Null == <<>>
NoError == "null"

InvalidTypeMsg == "Please select a valid image file"
TooLargeMsg == "File size must be less than 10MB"
ProcessingFailedMsg == "Failed to remove background. Please try again with a different image."

MaxFileSize == 10 * 1024 * 1024

ImagePrefix == <<"i", "m", "a", "g", "e", "/">>

TypePng == <<"i", "m", "a", "g", "e", "/", "p", "n", "g">>
TypePdf == <<"a", "p", "p", "l", "i", "c", "a", "t", "i", "o", "n", "/", "p", "d", "f">>
TypeBareImage == <<"i", "m", "a", "g", "e">>
TypeInnerImage == <<"x", "/", "i", "m", "a", "g", "e", "/">>
TypeEmpty == <<>>

Types == {TypePng, TypePdf, TypeBareImage, TypeInnerImage, TypeEmpty}

Sizes == {2 * 1024 * 1024, 10485760, 10485761, 11 * 1024 * 1024}

NameCat == <<"c", "a", "t", ".", "j", "p", "g">>
NameDoc == <<"d", "o", "c", ".", "p", "d", "f">>

Names == {NameCat, NameDoc}

Files == [type : Types, size : Sizes, name : Names]

ExtraFiles == {[type |-> TypePng, size |-> 2 * 1024 * 1024, name |-> NameCat],
               [type |-> TypePdf, size |-> 11 * 1024 * 1024, name |-> NameDoc]}

\* e.dataTransfer.files of a drop: no file, one file, or a first file and another
DropLists == {<<>>} \cup {<<f>> : f \in Files}
                    \cup {<<f, g>> : f \in Files, g \in ExtraFiles}

\* e.target.files of the (single-selection) file input: no file or one file
PickLists == {<<>>} \cup {<<f>> : f \in Files}

DragTypes == {"dragenter", "dragover", "dragleave"}

\* characters of the file names tried against the download name
NameAlphabet == {"a", ".", "/"}

BoundedNames == Names \cup UNION {[1..n -> NameAlphabet] : n \in 0..MaxNameLen}

\* values removeBackground may reject with or throw
ThrownValues == {"TypeError: Failed to fetch", "RangeError: out of memory"}

NoLog == "none"

----------------------------------------------------------------------------
(* Pure helpers *)

\* String.prototype.startsWith
StartsWith(s, p) ==
    /\ Len(p) <= Len(s)
    /\ \A i \in 1..Len(p) : s[i] = p[i]

IsImageType_BarePrefix(f) == StartsWith(f.type, TypeBareImage)
\* file.type.startsWith('image/')
IsImageType(f) == StartsWith(f.type, ImagePrefix)

TooLarge_AtLeast(f) == f.size >= MaxFileSize
TooLarge_OffByOne(f) == f.size > MaxFileSize + 1
\* file.size > 10 * 1024 * 1024
TooLarge(f) == f.size > MaxFileSize

\* the pattern \.[^/.]+$ matches s from position i to the end
ExtensionAt(s, i) ==
    /\ s[i] = "."
    /\ i < Len(s)
    /\ \A j \in (i + 1)..Len(s) : s[j] \notin {"/", "."}

StripExtension_FirstDot(s) ==
    IF \E i \in 1..Len(s) : s[i] = "."
    THEN SubSeq(s, 1, (CHOOSE i \in 1..Len(s) :
                          /\ s[i] = "."
                          /\ \A k \in 1..(i - 1) : s[k] # ".") - 1)
    ELSE s
\* name.replace(/\.[^/.]+$/, ''): the leftmost match, if any, is removed
StripExtension(s) ==
    IF \E i \in 1..Len(s) : ExtensionAt(s, i)
    THEN SubSeq(s, 1, (CHOOSE i \in 1..Len(s) :
                          /\ ExtensionAt(s, i)
                          /\ \A k \in 1..(i - 1) : ~ExtensionAt(s, k)) - 1)
    ELSE s

\* `bg-removed-${...}.png`
DownloadName(n) ==
    <<"b", "g", "-", "r", "e", "m", "o", "v", "e", "d", "-">>
        \o StripExtension(n) \o <<".", "p", "n", "g">>

UploadSectionShown_IgnoreProcessing == processedImage = Null
\* !processedImage && !processing: the drop zone and the file input are rendered
UploadSectionShown == processedImage = Null /\ ~processing

\* the second branch of the render: the processing card, which has no controls
ProcessingSectionShown == ~UploadSectionShown /\ processing

\* the last branch of the render: previews, Download and Process Another Image
ResultsSectionShown == ~UploadSectionShown /\ ~processing

----------------------------------------------------------------------------
(* Initial state: the values passed to useState *)

Init ==
    /\ dragActive = FALSE
    /\ processing = FALSE
    /\ processedImage = Null
    /\ error = NoError
    /\ pending = {}
    /\ liveUrls = {}
    /\ urlCount = 0
    /\ calls = 0
    /\ handed = 0
    /\ file = Null
    /\ prevImage = Null
    /\ event = "init"
    /\ dispatched = Null
    /\ dropped = <<>>
    /\ logged = NoLog
    /\ saved = Null

----------------------------------------------------------------------------
(* handleFile: the synchronous part, up to the await *)

Dispatch_KeepError(f) ==
    /\ error' = error
    /\ processing' = TRUE
    /\ urlCount' = urlCount + 1
    /\ liveUrls' = liveUrls \cup {urlCount + 1}
    /\ pending' = pending \cup {[file |-> f, originalUrl |-> urlCount + 1]}
    /\ calls' = calls + 1
    /\ dispatched' = <<[file |-> f, originalUrl |-> urlCount + 1]>>
    /\ UNCHANGED <<processedImage, prevImage>>

\* lines 49-57: clear the error, enter Processing, create the original's URL,
\* call removeBackground and suspend
Dispatch(f) ==
    /\ error' = NoError
    /\ processing' = TRUE
    /\ urlCount' = urlCount + 1
    /\ liveUrls' = liveUrls \cup {urlCount + 1}
    /\ pending' = pending \cup {[file |-> f, originalUrl |-> urlCount + 1]}
    /\ calls' = calls + 1
    /\ dispatched' = <<[file |-> f, originalUrl |-> urlCount + 1]>>
    /\ UNCHANGED <<processedImage, prevImage>>

Refuse_AfterCreatingUrl(msg) ==
    /\ error' = msg
    /\ urlCount' = urlCount + 1
    /\ liveUrls' = liveUrls \cup {urlCount + 1}
    /\ UNCHANGED <<processing, processedImage, pending, calls, prevImage,
                   dispatched>>

\* lines 39-47: a validation failure sets the message and returns
Refuse(msg) ==
    /\ error' = msg
    /\ UNCHANGED <<processing, processedImage, pending, liveUrls, urlCount,
                   calls, prevImage, dispatched>>

HandleFile(f) ==
    /\ handed' = handed + 1
    /\ file' = <<f>>
    /\ IF ~IsImageType(f) THEN Refuse(InvalidTypeMsg)
       ELSE IF TooLarge(f) THEN Refuse(TooLargeMsg)
       ELSE Dispatch(f)

----------------------------------------------------------------------------
(* Event handlers of the upload section *)

\* lines 18-26
HandleDrag(t) ==
    /\ UploadSectionShown
    /\ dragActive' = (IF t \in {"dragenter", "dragover"} THEN TRUE
                      ELSE IF t = "dragleave" THEN FALSE ELSE dragActive)
    /\ event' = t
    /\ UNCHANGED <<processing, processedImage, error, pending, liveUrls,
                   urlCount, calls, handed, file, prevImage, dispatched,
                   logged, saved>>
    /\ dropped' = <<>>

HandleDrop_LastFile(fs) ==
    /\ UploadSectionShown
    /\ handed < MaxUploads
    /\ dragActive' = FALSE
    /\ event' = "drop"
    /\ dropped' = fs
    /\ UNCHANGED <<logged, saved>>
    /\ IF Len(fs) > 0 THEN HandleFile(fs[Len(fs)])
       ELSE UNCHANGED <<processing, processedImage, error, pending, liveUrls,
                        urlCount, calls, handed, file, prevImage, dispatched>>

\* lines 28-36
HandleDrop(fs) ==
    /\ UploadSectionShown
    /\ handed < MaxUploads
    /\ dragActive' = FALSE
    /\ event' = "drop"
    /\ dropped' = fs
    /\ UNCHANGED <<logged, saved>>
    /\ IF Len(fs) > 0 THEN HandleFile(fs[1])
       ELSE UNCHANGED <<processing, processedImage, error, pending, liveUrls,
                        urlCount, calls, handed, file, prevImage, dispatched>>

\* lines 73-77
HandleFileInput(fs) ==
    /\ UploadSectionShown
    /\ handed < MaxUploads
    /\ event' = "change"
    /\ dropped' = <<>>
    /\ UNCHANGED <<dragActive, logged, saved>>
    /\ IF Len(fs) > 0 THEN HandleFile(fs[1])
       ELSE UNCHANGED <<processing, processedImage, error, pending, liveUrls,
                        urlCount, calls, handed, file, prevImage, dispatched>>

----------------------------------------------------------------------------
(* handleFile: the continuations after the await *)

\* lines 58-64 and 69: the promise resolved with a blob
OnComplete(p) ==
    /\ p \in pending
    /\ pending' = pending \ {p}
    /\ urlCount' = urlCount + 1
    /\ liveUrls' = liveUrls \cup {urlCount + 1}
    /\ processedImage' = <<[original |-> p.originalUrl,
                            processed |-> urlCount + 1,
                            name |-> p.file.name]>>
    /\ prevImage' = (IF processedImage # Null THEN processedImage ELSE prevImage)
    /\ processing' = FALSE
    /\ event' = "resolve"
    /\ UNCHANGED <<dragActive, error, calls, handed, file, dispatched,
                   logged, saved>>
    /\ dropped' = <<>>

OnFailure_NoFinally(p) ==
    /\ p \in pending
    /\ pending' = pending \ {p}
    /\ error' = ProcessingFailedMsg
    /\ event' = "reject"
    /\ \E err \in ThrownValues : logged' = err
    /\ UNCHANGED <<dragActive, processing, processedImage, liveUrls, urlCount,
                   calls, handed, file, prevImage, dispatched, saved>>
    /\ dropped' = <<>>

OnFailure_Retry(p) ==
    /\ p \in pending
    /\ calls < MaxUploads + 1
    /\ calls' = calls + 1
    /\ error' = ProcessingFailedMsg
    /\ event' = "reject"
    /\ \E err \in ThrownValues : logged' = err
    /\ UNCHANGED <<dragActive, processing, processedImage, pending, liveUrls,
                   urlCount, handed, file, prevImage, dispatched, saved>>
    /\ dropped' = <<>>

OnFailure_ShowsThrown(p) ==
    /\ p \in pending
    /\ pending' = pending \ {p}
    /\ \E err \in ThrownValues : logged' = err /\ error' = err
    /\ processing' = FALSE
    /\ event' = "reject"
    /\ UNCHANGED <<dragActive, processedImage, liveUrls, urlCount, calls,
                   handed, file, prevImage, dispatched, saved>>
    /\ dropped' = <<>>

\* lines 65-69: the promise rejected (or removeBackground threw) with some
\* value err, which goes to console.error only
OnFailure(p) ==
    /\ p \in pending
    /\ pending' = pending \ {p}
    /\ \E err \in ThrownValues : logged' = err
    /\ error' = ProcessingFailedMsg
    /\ processing' = FALSE
    /\ event' = "reject"
    /\ UNCHANGED <<dragActive, processedImage, liveUrls, urlCount, calls,
                   handed, file, prevImage, dispatched, saved>>
    /\ dropped' = <<>>

----------------------------------------------------------------------------
(* Event handlers of the results section *)

HandleReset_WhileProcessing ==
    /\ ~UploadSectionShown
    /\ processedImage' = Null
    /\ processing' = FALSE
    /\ error' = NoError
    /\ prevImage' = (IF processedImage # Null THEN processedImage ELSE prevImage)
    /\ event' = "reset"
    /\ UNCHANGED <<dragActive, pending, liveUrls, urlCount, calls, handed, file,
                   dispatched, logged, saved>>
    /\ dropped' = <<>>

\* lines 79-86; the file input is not mounted while the results are shown,
\* so fileInputRef.current is null and line 84 does not run
HandleReset ==
    /\ ResultsSectionShown
    /\ processedImage' = Null
    /\ processing' = FALSE
    /\ error' = NoError
    /\ prevImage' = (IF processedImage # Null THEN processedImage ELSE prevImage)
    /\ event' = "reset"
    /\ UNCHANGED <<dragActive, pending, liveUrls, urlCount, calls, handed, file,
                   dispatched, logged, saved>>
    /\ dropped' = <<>>

Download_RevokesResult ==
    /\ event' = "download"
    /\ IF processedImage # Null
       THEN /\ saved' = <<[href |-> processedImage[1].processed,
                           download |-> DownloadName(processedImage[1].name)]>>
            /\ liveUrls' = liveUrls \ {processedImage[1].processed}
       ELSE UNCHANGED <<saved, liveUrls>>
    /\ dropped' = <<>>
    /\ UNCHANGED <<dragActive, processing, processedImage, error, pending,
                   urlCount, calls, handed, file, prevImage, dispatched,
                   logged>>

\* lines 88-97: the body of handleDownload
Download ==
    /\ event' = "download"
    /\ IF processedImage # Null
       THEN saved' = <<[href |-> processedImage[1].processed,
                        download |-> DownloadName(processedImage[1].name)]>>
       ELSE UNCHANGED saved
    /\ UNCHANGED <<dragActive, processing, processedImage, error, pending,
                   liveUrls, urlCount, calls, handed, file, prevImage,
                   dispatched, logged>>
    /\ dropped' = <<>>

\* the Download Result button (line 269) is part of the results section
HandleDownload ==
    /\ ResultsSectionShown
    /\ Download

----------------------------------------------------------------------------

Next ==
    \/ \E t \in DragTypes : HandleDrag(t)
    \/ \E fs \in DropLists : HandleDrop(fs)
    \/ \E fs \in PickLists : HandleFileInput(fs)
    \/ \E p \in pending : OnComplete(p)
    \/ \E p \in pending : OnFailure(p)
    \/ HandleReset
    \/ HandleDownload

Spec == Init /\ [][Next]_vars

\* the external call settles: a pending promise is eventually resolved or rejected
SpecFair ==
    /\ Init
    /\ [][Next]_vars
    /\ WF_vars(\E p \in pending : OnComplete(p) \/ OnFailure(p))

\* handleDownload called as a function in any state, also where its button is
\* not rendered
NextDirect ==
    \/ Next
    \/ Download

SpecDirect == Init /\ [][NextDirect]_vars

\* the results section after the upload of a 2 MiB image/png file named n succeeded
InitDownload ==
    \E n \in BoundedNames :
        LET f == [type |-> TypePng, size |-> 2 * 1024 * 1024, name |-> n]
        IN  /\ dragActive = FALSE
            /\ processing = FALSE
            /\ processedImage = <<[original |-> 1, processed |-> 2, name |-> n]>>
            /\ error = NoError
            /\ pending = {}
            /\ liveUrls = {1, 2}
            /\ urlCount = 2
            /\ calls = 1
            /\ handed = 1
            /\ file = <<f>>
            /\ prevImage = Null
            /\ event = "resolve"
            /\ dispatched = <<[file |-> f, originalUrl |-> 1]>>
            /\ dropped = <<>>
            /\ logged = NoLog
            /\ saved = Null

NextDownload == HandleDownload

SpecDownload == InitDownload /\ [][NextDownload]_vars

----------------------------------------------------------------------------
(* Vocabulary of the properties, stated on the observable values only *)

\* the declared type begins with the six characters image/
BeginsWithImageSlash(t) == Len(t) >= 6 /\ SubSeq(t, 1, 6) = <<"i", "m", "a", "g", "e", "/">>

\* a handleFile run took place in this step
FileHanded == handed' = handed + 1

\* the file of this step's handleFile run
HandedFile == file'[1]

\* this step started an external removal call
CallStarted == calls' = calls + 1 /\ pending' # pending

\* this step started no external removal call
NoCallStarted == calls' = calls /\ pending' = pending

\* this step entered the Processing state
EntersProcessing == ~processing /\ processing'

\* the object URLs held by a ProcessedImage option
RefsOf(img) == IF img = Null THEN {} ELSE {img[1].original, img[1].processed}

----------------------------------------------------------------------------
(* C1: a file whose declared type does not begin with 'image/' gets the    *)
(* error 'Please select a valid image file', does not enter Processing and *)
(* starts no removeBackground call.                                        *)
C1_InvalidTypeRefused ==
    [][(FileHanded /\ ~BeginsWithImageSlash(HandedFile.type))
          => /\ error' = "Please select a valid image file"
             /\ ~processing'
             /\ ~EntersProcessing
             /\ NoCallStarted]_vars

C1_Witness ==
    /\ event \in {"drop", "change"}
    /\ file # Null
    /\ file[1].type = TypeBareImage
    /\ error = "Please select a valid image file"
    /\ calls = 0

(* C2 as stated: every file larger than 10 MiB, whatever its type, gets    *)
(* the 10MB-limit error and starts no call.                                *)
C2_Original ==
    [][(FileHanded /\ HandedFile.size > 10485760)
          => /\ error' = "File size must be less than 10MB"
             /\ NoCallStarted]_vars

(* C2 as amended: every file larger than 10 MiB starts no removeBackground *)
(* call and does not enter Processing; it gets the 10MB-limit error when   *)
(* its type begins with 'image/' and the invalid-image error otherwise,    *)
(* because the type is checked first.                                      *)
C2_TooLargeRefused ==
    [][(FileHanded /\ HandedFile.size > 10485760)
          => /\ NoCallStarted
             /\ ~EntersProcessing
             /\ error' = (IF BeginsWithImageSlash(HandedFile.type)
                          THEN "File size must be less than 10MB"
                          ELSE "Please select a valid image file")]_vars

C2_Witness ==
    /\ event \in {"drop", "change"}
    /\ file # Null
    /\ file[1].type = TypePng
    /\ file[1].size = 10485761
    /\ error = "File size must be less than 10MB"
    /\ calls = 0

(* C3: a file is dispatched to the external call if and only if its type   *)
(* begins with 'image/' and its size is at most 10485760 bytes; no other   *)
(* step starts a call.                                                     *)
C3_DispatchedIffValid ==
    [][/\ FileHanded =>
            (CallStarted <=> (/\ BeginsWithImageSlash(HandedFile.type)
                              /\ HandedFile.size <= 10485760))
       /\ FileHanded => (CallStarted \/ NoCallStarted)
       /\ ~FileHanded => calls' = calls]_vars

C3_Witness ==
    /\ event \in {"drop", "change"}
    /\ file # Null
    /\ file[1].size = 10485760
    /\ processing
    /\ \E p \in pending : p.file = file[1]

(* C4: a valid file handed to handleFile enters Processing once and starts *)
(* one removeBackground call for that file; no other step, in particular   *)
(* no completion of a call, starts a call or enters Processing.            *)
C4_OneCallPerValidFile ==
    [][LET valid == /\ FileHanded
                    /\ BeginsWithImageSlash(HandedFile.type)
                    /\ HandedFile.size <= 10485760
       IN  /\ valid => /\ EntersProcessing
                       /\ calls' = calls + 1
                       /\ \E p \in pending' \ pending :
                             /\ p.file = HandedFile
                             /\ pending' = pending \cup {p}
           /\ ~valid => /\ calls' = calls
                        /\ ~EntersProcessing
                        /\ pending' \subseteq pending]_vars

C4_Witness ==
    /\ event = "reject"
    /\ calls = 1
    /\ pending = {}
    /\ ~processing

(* C5: at most one removeBackground call is outstanding, and while the     *)
(* controller is Processing no handleFile run starts.                      *)
C5_SingleOutstandingCall ==
    /\ [](Cardinality(pending) <= 1)
    /\ [](processing <=> pending # {})
    /\ [][processing => ~FileHanded]_vars

C5_Witness ==
    /\ processing
    /\ Cardinality(pending) = 1
    /\ calls = 2
    /\ dragActive

(* C6 as stated: after a successful call there is one ProcessedResult with *)
(* the file's name and two live references, Processing is cleared, and the *)
(* references of the previous result are no longer live.                   *)
C6_Original ==
    event = "resolve" =>
        /\ processedImage # Null
        /\ ~processing
        /\ processedImage[1].name = file[1].name
        /\ processedImage[1].original # processedImage[1].processed
        /\ RefsOf(processedImage) \subseteq liveUrls
        /\ RefsOf(prevImage) \cap liveUrls = {}

(* C7: after a failed call the error is the generic processing-failure     *)
(* message, there is no ProcessedResult, Processing is cleared and the     *)
(* upload section is rendered again.                                       *)
C7_FailureLeadsToError ==
    event = "reject" =>
        /\ error = "Failed to remove background. Please try again with a different image."
        /\ processedImage = Null
        /\ ~processing
        /\ pending = {}

C7_Witness ==
    /\ event = "reject"
    /\ error = ProcessingFailedMsg
    /\ handed < MaxUploads
    /\ ENABLED (\E fs \in PickLists : HandleFileInput(fs))

(* C8 as stated: after Reset the controller is Idle and both references of *)
(* the ProcessedResult that was shown have been released.                  *)
C8_Original ==
    event = "reset" =>
        /\ processedImage = Null
        /\ error = NoError
        /\ ~processing
        /\ RefsOf(prevImage) \cap liveUrls = {}

(* C9 as stated: every live reference belongs to the current               *)
(* ProcessedResult or to the upload in progress, so at most two are live.  *)
C9_Original ==
    /\ liveUrls \subseteq (RefsOf(processedImage) \cup {p.originalUrl : p \in pending})
    /\ Cardinality(liveUrls) <= 2

(* C10: at most one of processing, a ProcessedResult and an error holds.   *)
C10_StatesExclusive ==
    /\ ~(processing /\ processedImage # Null)
    /\ ~(processing /\ error # NoError)
    /\ ~(processedImage # Null /\ error # NoError)

C10_Witness ==
    /\ processing
    /\ handed >= 2
    /\ calls = 1
    /\ error = NoError

----------------------------------------------------------------------------
(* Vocabulary of the later properties *)

\* the step's file passes both tests of the intake
HandedFileValid ==
    /\ BeginsWithImageSlash(HandedFile.type)
    /\ HandedFile.size <= 10485760

\* n without its final extension: the last '.' and the one or more characters
\* after it, none of them a '/'; n itself when it has no such extension
Stem(n) ==
    LET dots == {i \in 1..Len(n) : n[i] = "."}
    IN  IF dots = {} THEN n
        ELSE LET d == CHOOSE i \in dots : \A k \in dots : k <= i
             IN  IF d < Len(n) /\ \A j \in (d + 1)..Len(n) : n[j] # "/"
                 THEN SubSeq(n, 1, d - 1)
                 ELSE n

\* everything but the Dragging flag and the record of the latest event
ControllerRest ==
    <<processing, processedImage, error, pending, liveUrls, urlCount, calls,
      handed, file, prevImage, dispatched, logged, saved>>

(* C11: Download saves the processed reference under the name              *)
(* 'bg-removed-' + stem(n) + '.png', n being the result's name.            *)
C11_DownloadName ==
    [][(event' = "download" /\ processedImage # Null) =>
          /\ saved' # Null
          /\ saved'[1].href = processedImage[1].processed
          /\ saved'[1].download =
                <<"b", "g", "-", "r", "e", "m", "o", "v", "e", "d", "-">>
                    \o Stem(processedImage[1].name) \o <<".", "p", "n", "g">>]_vars

C11_Witness ==
    /\ event = "download"
    /\ processedImage # Null
    /\ processedImage[1].name = <<"c", "a", "t", ".", "j", "p", "g">>
    /\ saved # Null
    /\ saved[1].download = <<"b", "g", "-", "r", "e", "m", "o", "v", "e", "d",
                             "-", "c", "a", "t", ".", "p", "n", "g">>

(* C12 as stated: whenever dragActive is true the controller is not        *)
(* Processing and holds no ProcessedResult.                                *)
C12_Original ==
    dragActive => (~processing /\ processedImage = Null)

(* C13 as stated: from the Error state every new upload and every reset    *)
(* clears the error and leads to Idle or Processing.                       *)
C13_Original ==
    [][(error # NoError /\ (FileHanded \/ event' = "reset"))
          => error' = NoError]_vars

(* C13 as amended: from the Error state an upload of a valid file clears   *)
(* the error and leads to Processing; an upload of an invalid file stays   *)
(* in the Error state with that file's validation message; no reset is     *)
(* taken from the Error state.                                             *)
C13_ErrorLeftByValidUpload ==
    [][error # NoError =>
          /\ (FileHanded /\ HandedFileValid)
                => (error' = NoError /\ processing')
          /\ (FileHanded /\ ~HandedFileValid)
                => /\ ~processing'
                   /\ error' = (IF BeginsWithImageSlash(HandedFile.type)
                                THEN "File size must be less than 10MB"
                                ELSE "Please select a valid image file")
          /\ event' # "reset"]_vars

C13_Witness ==
    /\ event = "change"
    /\ processing
    /\ error = NoError
    /\ handed = 2
    /\ calls = 1

(* C14: when the external call settles, every Processing state is followed *)
(* by Result or Error with processing false; Processing is left by the     *)
(* completion of the call only, and while Processing no other event runs.  *)
C14_ProcessingLeftByCompletion ==
    /\ processing ~> (/\ ~processing
                      /\ \/ event = "resolve" /\ processedImage # Null
                         \/ event = "reject" /\ error = ProcessingFailedMsg)
    /\ [][processing => (processing' \/ event' \in {"resolve", "reject"})]_vars
    /\ [][(processing /\ vars' # vars) => event' \in {"resolve", "reject"}]_vars

C14_Witness ==
    /\ event = "resolve"
    /\ ~processing
    /\ processedImage # Null
    /\ calls = 2
    /\ logged # NoLog

(* C15: a validation failure changes the error message only: processing,   *)
(* processedImage and the object URLs are unchanged and no call starts;    *)
(* dragActive is unchanged by it (a drop has cleared it beforehand).       *)
C15_ValidationFailureFrame ==
    [][(FileHanded /\ ~HandedFileValid) =>
          /\ processing' = processing
          /\ processedImage' = processedImage
          /\ liveUrls' = liveUrls
          /\ urlCount' = urlCount
          /\ NoCallStarted
          /\ dispatched' = dispatched
          /\ error' \in {"Please select a valid image file",
                         "File size must be less than 10MB"}
          /\ dragActive' = (IF event' = "drop" THEN FALSE ELSE dragActive)]_vars

C15_Witness ==
    /\ event = "change"
    /\ dragActive
    /\ error = TooLargeMsg
    /\ liveUrls = {}

(* C16: drag-enter and drag-over set Dragging, drag-leave clears it, each  *)
(* changing nothing else; a drop clears Dragging and hands the first       *)
(* dropped file, and no other, to handleFile; an empty drop changes the    *)
(* flag only.                                                              *)
C16_DragHandlers ==
    [][/\ event' \in {"dragenter", "dragover"}
            => (dragActive' /\ ControllerRest' = ControllerRest)
       /\ event' = "dragleave"
            => (~dragActive' /\ ControllerRest' = ControllerRest)
       /\ (event' = "drop" /\ vars' # vars)
            => /\ ~dragActive'
               /\ IF dropped' = <<>>
                  THEN ControllerRest' = ControllerRest
                  ELSE /\ handed' = handed + 1
                       /\ file' = <<dropped'[1]>>
                       /\ pending \subseteq pending'
                       /\ Cardinality(pending' \ pending) <= 1
                       /\ \A p \in pending' \ pending : p.file = dropped'[1]
                       /\ calls' = calls + Cardinality(pending' \ pending)]_vars

C16_Witness ==
    /\ event = "drop"
    /\ Len(dropped) = 2
    /\ dropped[1] # dropped[2]
    /\ file = <<dropped[1]>>
    /\ \E p \in pending : p.file = dropped[1]

(* C17: the displayed error is absent or one of the three fixed messages;  *)
(* the value thrown by the external call is logged and is never displayed. *)
C17_FixedMessages ==
    /\ error \in {NoError,
                  "Please select a valid image file",
                  "File size must be less than 10MB",
                  "Failed to remove background. Please try again with a different image."}
    /\ error \notin ThrownValues
    /\ event = "reject" => logged \in ThrownValues

C17_Witness ==
    /\ event = "reject"
    /\ logged = "TypeError: Failed to fetch"
    /\ error = ProcessingFailedMsg

(* C18: a shown result has the name and the original reference of the most *)
(* recently dispatched file, and a result is installed only by the         *)
(* completion of the one outstanding call, never over another result.      *)
C18_ResultOfLatestDispatch ==
    /\ [](processedImage # Null =>
             /\ dispatched # Null
             /\ processedImage[1].name = dispatched[1].file.name
             /\ processedImage[1].original = dispatched[1].originalUrl)
    /\ [][(processedImage' # processedImage /\ processedImage' # Null) =>
             /\ event' = "resolve"
             /\ processedImage = Null
             /\ pending = {dispatched[1]}
             /\ pending' = {}]_vars

C18_Witness ==
    /\ event = "resolve"
    /\ processedImage # Null
    /\ prevImage # Null
    /\ calls = 2
    /\ processedImage[1].original = dispatched[1].originalUrl
    /\ processedImage[1].name # prevImage[1].name

(* C19: Download changes no controller state, so the result stays          *)
(* downloadable, and it does nothing when no ProcessedResult is held.      *)
C19_DownloadFrame ==
    [][event' = "download" =>
          /\ processing' = processing
          /\ processedImage' = processedImage
          /\ error' = error
          /\ dragActive' = dragActive
          /\ liveUrls' = liveUrls
          /\ pending' = pending
          /\ (processedImage = Null => saved' = saved)
          /\ (processedImage # Null =>
                 (saved' # Null /\ saved'[1].href \in liveUrls'))]_vars

C19_Witness ==
    /\ event = "download"
    /\ processedImage = Null
    /\ saved # Null
    /\ saved[1].href \in liveUrls

====
